---- MODULE Spec2Model ----
\* The multi-turn dialogue controller of MedLama (src/multiturn.py) and its two
\* drivers: run_web_prompt (the Flask routes of src/app.py) and run_command_line.
\*
\* Texts are sequences of words; str.lower() and the `in` substring test are
\* computed word by word.  Python dicts are records, and a node's partial update
\* is a record holding only the keys the node returns; the graph merges it into
\* the state (Merge).  A dict that may be empty carries a `has` field.
EXTENDS Integers, Sequences, FiniteSets, TLC

VARIABLES
    driver,   \* "web": run_web_prompt behind Flask; "cli": run_command_line
    state,    \* the session: the module global `state` (web) or the local `state` (cli)
    pc,       \* where the current call stands: "idle", a graph node, "END", ...
    g,        \* the graph state inside graph.invoke
    input,    \* the text handed to the current (or last) call
    ret,      \* what the last call returned to its caller, or the exception it raised
    prev,     \* what the call before the current (or last) one returned
    pre,      \* the session as it was stored when the current call began
    nodes,    \* the graph nodes the current call has run, in order
    ext,      \* the external requests (completion, research) the current call has made
    th,       \* the Flask request threads inside run_web_prompt (SpecThreads)
    db        \* the MongoDB collections of the backend routes (SpecBackend)

vars == <<driver, state, pc, g, input, ret, prev, pre, nodes, ext, th, db>>

-----------------------------------------------------------------------------
\* Program constants

QuestionCutoff == 4
RecursionLimit == 8
\* graph.invoke(initial_state) of llm.py passes no config: the library's default
DefaultRecursionLimit == 25

\* Bound of the model: how many different reports the analysis prompt can be
\* answered with
NumReports == 2

\* Bound of the model: the longest message list a node function is applied to
MaxLen == 3

\* Bounds of the model: how many quizzes are submitted, and how many messages a
\* stored conversation grows to
MaxQuizzes == 2
MaxMessages == 2

\* Python values that are either a str or None
PyStr(t) == [type |-> "str", val |-> t]
PyNone == [type |-> "NoneType", val |-> <<>>]

\* `state = None`, and the empty dicts {} of the state
None == [present |-> FALSE]
EmptyDict == [has |-> FALSE]

-----------------------------------------------------------------------------
\* Texts

LowerWord(w) ==
    CASE w = "EXIT" -> "exit"
      [] w = "Exit" -> "exit"
      [] w = "New" -> "new"
      [] w = "Enough" -> "enough"
      [] w = "Information" -> "information"
      [] OTHER -> w

\* str.lower()
Lower(t) == [i \in 1..Len(t) |-> LowerWord(t[i])]

\* `p in t` for texts
Contains(t, p) ==
    \E i \in 0..(Len(t) - Len(p)) : \A j \in 1..Len(p) : t[i + j] = p[j]

ExitSentinel == <<"exit">>
EnoughInfoPhrase == <<"enough", "information">>
NewTopicPhrases ==
    { <<"new", "symptom">>, <<"different", "issue">>,
      <<"another", "problem">>, <<"different", "question">> }
CompletionMarker == "[SYSTEM: ANALYSIS COMPLETE]"
ResetNotice == "Analysis complete. Starting fresh conversation."
SessionEnded == <<"Chat session ended.", "You can start a new conversation.">>
TopicChangeAck == <<"I understand you'd like to discuss a new medical topic.">>
ExtractionError == <<"Error", "processing", "symptoms">>
NoResearchData == <<"No research data available">>
NoContentFound == <<"No content found.">>

\* What the callers send
Inputs ==
    { <<"exit">>, <<"EXIT">>, <<"chest", "pain">>, <<"New", "symptom", "headache">> }

\* What the completion client answers to a clarifying-question prompt, to the
\* extraction prompt and to the analysis prompt; or it raises
Replies == { <<"how", "long">>, <<"I", "have", "Enough", "Information">> }
Extractions == { <<"symptoms">> }
RiskLabels == << "LOW", "MEDIUM", "HIGH" >>
Report(i) == << RiskLabels[((i - 1) % 3) + 1], "risk", "report", ToString(i) >>
Reports == { Report(i) : i \in 1..NumReports }

Ok(t) == [ok |-> TRUE, text |-> t]
Failed == [ok |-> FALSE, text |-> <<>>]
ReplyOutcomes == { Ok(t) : t \in Replies } \cup { Failed }
ExtractOutcomes == { Ok(t) : t \in Extractions } \cup { Failed }
ReportOutcomes == { Ok(t) : t \in Reports } \cup { Failed }

-----------------------------------------------------------------------------
\* The research client

\* What requests.post can come back with
Choice(hm, hc, c) == [has_message |-> hm, has_content |-> hc, content |-> c]
Body(json, hc, cs) == [is_json |-> json, has_choices |-> hc, choices |-> cs]
Http(net, status, body) == [net |-> net, status |-> status, body |-> body]
ResearchAnswer == <<"likely", "conditions">>
HttpOutcomes ==
    { Http("fail", 0, Body(FALSE, FALSE, <<>>)),
      Http("ok", 500, Body(FALSE, FALSE, <<>>)),
      Http("ok", 200, Body(FALSE, FALSE, <<>>)),
      Http("ok", 200, Body(TRUE, TRUE, << Choice(TRUE, TRUE, PyStr(ResearchAnswer)) >>)),
      Http("ok", 200, Body(TRUE, TRUE, << Choice(TRUE, TRUE, PyNone) >>)),
      Http("ok", 200, Body(TRUE, TRUE, << Choice(TRUE, FALSE, PyNone) >>)),
      Http("ok", 200, Body(TRUE, TRUE, << Choice(FALSE, FALSE, PyNone) >>)),
      Http("ok", 200, Body(TRUE, TRUE, <<>>)),
      Http("ok", 200, Body(TRUE, FALSE, <<>>)) }

Returns(v) == [raised |-> FALSE, exc |-> "", value |-> v]
Raises(e) == [raised |-> TRUE, exc |-> e, value |-> PyNone]
ResearchErrorText(e) == <<"Error", "researching", "topic:", e>>

\* json_response["choices"][0].get("message", {}).get("content", "No content found.")
choice_content(body) ==
    IF ~body.has_choices THEN Raises("KeyError")
    ELSE IF Len(body.choices) = 0 THEN Raises("IndexError")
    ELSE LET c == body.choices[1]
         IN IF c.has_message /\ c.has_content
            THEN Returns(c.content)
            ELSE Returns(PyStr(NoContentFound))

\* Mutant: the request is made outside the try block
perplexity_research_unguarded(http) ==
    IF http.net = "fail"
    THEN Raises("ConnectionError")
    ELSE IF http.status >= 400
    THEN Returns(PyStr(ResearchErrorText("HTTPError")))
    ELSE IF ~http.body.is_json
    THEN Returns(PyStr(ResearchErrorText("JSONDecodeError")))
    ELSE choice_content(http.body)

perplexity_research(http) ==
    IF http.net = "fail"
    THEN Returns(PyStr(ResearchErrorText("ConnectionError")))   \* except RequestException
    ELSE IF http.status >= 400
    THEN Returns(PyStr(ResearchErrorText("HTTPError")))         \* raise_for_status
    ELSE IF ~http.body.is_json                                  \* response.json():
    THEN Returns(PyStr(ResearchErrorText("JSONDecodeError")))   \* a RequestException too
    ELSE choice_content(http.body)

-----------------------------------------------------------------------------
\* The state dict and the nodes of the graph

user_msg(t) == [role |-> "user", content |-> t]
assistant_msg(t) == [role |-> "assistant", content |-> t]

StateKeys ==
    { "present", "messages", "research_results", "analysis_complete", "report",
      "conversation_stage", "symptom_details", "question_count", "risk_assessment" }

\* A node returns a partial update: the graph writes the keys of the State schema
\* and leaves the other channels as they are
Merge(s, u) ==
    [k \in DOMAIN s \cup (DOMAIN u \cap StateKeys) |->
        IF k \in DOMAIN u THEN u[k] ELSE s[k]]

\* Mutant: a session opens with a greeting of the assistant
initial_state_with_greeting(initial_message) ==
    [present |-> TRUE,
     messages |-> << assistant_msg(<<"hello">>), user_msg(initial_message) >>,
     research_results |-> EmptyDict,
     analysis_complete |-> FALSE,
     report |-> EmptyDict,
     conversation_stage |-> "conversation",
     symptom_details |-> EmptyDict,
     question_count |-> 0]

initial_state(initial_message) ==
    [present |-> TRUE,
     messages |-> << user_msg(initial_message) >>,
     research_results |-> EmptyDict,
     analysis_complete |-> FALSE,
     report |-> EmptyDict,
     conversation_stage |-> "conversation",
     symptom_details |-> EmptyDict,
     question_count |-> 0]

\* Mutant: continue_medical_chat starts the message list over with the new message
updated_state_replaces(current_state, user_message) ==
    [current_state EXCEPT !.messages = << user_msg(user_message) >>]

updated_state(current_state, user_message) ==
    [current_state EXCEPT !.messages = Append(@, user_msg(user_message))]

\* The extractor absorbs a failure of its completion call
extract_symptom_details(messages, outcome) ==
    [has |-> TRUE,
     extracted_data |-> IF outcome.ok THEN outcome.text ELSE ExtractionError,
     last_updated |-> Len(messages)]

last_updated(symptom_details) ==
    IF symptom_details.has THEN symptom_details.last_updated ELSE 0

\* Mutant: the extractor runs whoever wrote the latest message
needs_extraction_any_role(s) ==
    /\ Len(s.messages) > 0
    /\ Len(s.messages) > last_updated(s.symptom_details)

\* Lines 183-186: is the extractor called in this invocation?
needs_extraction(s) ==
    /\ Len(s.messages) > 0
    /\ s.messages[Len(s.messages)].role = "user"
    /\ Len(s.messages) > last_updated(s.symptom_details)

\* Mutant: the phrase is looked for without lowering the reply
has_enough_info_case_sensitive(content) == Contains(content, EnoughInfoPhrase)

has_enough_info(content) == Contains(Lower(content), EnoughInfoPhrase)

\* Mutant: only the reply moves the dialogue on
new_stage_never_forced(enough, question_count) ==
    IF enough THEN "research" ELSE "conversation"

\* Mutant: only the cutoff moves the dialogue on
new_stage_ignores_signal(enough, question_count) ==
    IF question_count >= QuestionCutoff THEN "research" ELSE "conversation"

\* Mutant: the cutoff compares with > instead of >=
new_stage_off_by_one(enough, question_count) ==
    IF enough \/ question_count > QuestionCutoff THEN "research" ELSE "conversation"

new_stage(enough, question_count) ==
    IF enough \/ question_count >= QuestionCutoff THEN "research" ELSE "conversation"

\* Mutant: the handler returns the messages it read, without its reply
interactive_conversation_silent(s, extraction, content) ==
    [messages |-> s.messages,
     question_count |-> s.question_count + 1,
     conversation_stage |->
        IF has_enough_info(content) \/ s.question_count >= QuestionCutoff
        THEN "research" ELSE "conversation",
     symptom_details |->
        IF needs_extraction(s)
        THEN extract_symptom_details(s.messages, extraction)
        ELSE s.symptom_details]

\* Mutant: the handler returns the question_count it read
interactive_conversation_no_count(s, extraction, content) ==
    [messages |-> Append(s.messages, assistant_msg(content)),
     question_count |-> s.question_count,
     conversation_stage |->
        IF has_enough_info(content) \/ s.question_count >= QuestionCutoff
        THEN "research" ELSE "conversation",
     symptom_details |->
        IF needs_extraction(s)
        THEN extract_symptom_details(s.messages, extraction)
        ELSE s.symptom_details]

interactive_conversation(s, extraction, content) ==
    [messages |-> Append(s.messages, assistant_msg(content)),
     question_count |-> s.question_count + 1,
     conversation_stage |-> new_stage(has_enough_info(content), s.question_count),
     symptom_details |->
        IF needs_extraction(s)
        THEN extract_symptom_details(s.messages, extraction)
        ELSE s.symptom_details]

determine_research_needs(s, results) ==
    [research_results |-> [has |-> TRUE, medical_research |-> results]]

research_data(s) ==
    IF s.research_results.has THEN s.research_results.medical_research
    ELSE PyStr(NoResearchData)

generate_analysis(s, content) ==
    [analysis_complete |-> TRUE, report |-> [has |-> TRUE, content |-> content]]

report_content(s) == IF s.report.has THEN s.report.content ELSE <<>>

\* Mutant: the final step counts as a question
final_response_counts(s) ==
    [messages |-> Append(s.messages, assistant_msg(report_content(s) \o <<CompletionMarker>>)),
     conversation_stage |-> "complete",
     analysis_complete |-> TRUE,
     question_count |-> s.question_count + 1,
     risk |-> "UNKNOWN",
     report |-> s.report]

\* Mutant: the final step hands the dialogue back to the conversation stage
final_response_reopens(s) ==
    [messages |-> Append(s.messages, assistant_msg(report_content(s) \o <<CompletionMarker>>)),
     conversation_stage |-> "conversation",
     analysis_complete |-> TRUE,
     risk |-> "UNKNOWN",
     report |-> s.report]

final_response(s) ==
    [messages |-> Append(s.messages, assistant_msg(report_content(s) \o <<CompletionMarker>>)),
     conversation_stage |-> "complete",
     analysis_complete |-> TRUE,
     risk |-> "UNKNOWN",
     report |-> s.report]

\* Mutant: the acknowledgement is added to the whole history
reset_conversation_keeps_history(s) ==
    [messages |-> Append(s.messages, assistant_msg(TopicChangeAck)),
     research_results |-> EmptyDict,
     analysis_complete |-> FALSE,
     report |-> EmptyDict,
     conversation_stage |-> "conversation",
     symptom_details |-> EmptyDict,
     question_count |-> 0]

reset_conversation(s) ==
    LET n == Len(s.messages)
        keep == n > 0 /\ s.messages[n].role = "user"
    IN [messages |-> IF keep THEN << s.messages[n], assistant_msg(TopicChangeAck) >>
                     ELSE << assistant_msg(TopicChangeAck) >>,
        research_results |-> EmptyDict,
        analysis_complete |-> FALSE,
        report |-> EmptyDict,
        conversation_stage |-> "conversation",
        symptom_details |-> EmptyDict,
        question_count |-> 0]

is_new_topic(text) == \E p \in NewTopicPhrases : Contains(Lower(text), p)

\* The conditional edge after interactive_conversation
determine_next_stage(s) ==
    LET n == Len(s.messages)
        last_is_user == n > 0 /\ s.messages[n].role = "user"
        stage == s.conversation_stage
    IN IF s.analysis_complete THEN "final_response"
       ELSE IF last_is_user /\ stage = "conversation" THEN "continue_conversation"
       ELSE IF stage = "research" THEN "start_research"
       ELSE IF stage = "complete" /\ last_is_user
       THEN (IF is_new_topic(s.messages[n].content)
             THEN "restart_conversation" ELSE "continue_conversation")
       ELSE IF stage = "complete" THEN "UnboundLocalError"   \* line 366
       ELSE "wait_for_user"

\* Mutant: start_research leads straight to the analysis
PathMapSkipsResearch ==
    [continue_conversation |-> "interactive_conversation",
     wait_for_user |-> "wait_for_user",
     start_research |-> "generate_analysis",
     restart_conversation |-> "reset_conversation",
     end |-> "END"]

\* Mutant: wait_for_user leads back to the conversation handler
PathMapLoops ==
    [continue_conversation |-> "interactive_conversation",
     wait_for_user |-> "interactive_conversation",
     start_research |-> "determine_research_needs",
     restart_conversation |-> "reset_conversation",
     end |-> "END"]

\* add_conditional_edges: the routing table of the edge
PathMap ==
    [continue_conversation |-> "interactive_conversation",
     wait_for_user |-> "wait_for_user",
     start_research |-> "determine_research_needs",
     restart_conversation |-> "reset_conversation",
     end |-> "END"]

-----------------------------------------------------------------------------
\* The drivers

Returned(text, complete) ==
    [kind |-> "returned", messages |-> text, analysis_complete |-> complete, exc |-> ""]
RaisedOut(e) ==
    [kind |-> "raised", messages |-> <<>>, analysis_complete |-> FALSE, exc |-> e]
NoReturn ==
    [kind |-> "none", messages |-> <<>>, analysis_complete |-> FALSE, exc |-> ""]

last_content(s) == s.messages[Len(s.messages)].content

\* The backend's database before anything is stored: no learning progress
\* document, the demo user's statistics at zero, no quiz result, no conversation
Topics == { "cardiology", "anatomy" }
ConversationIds == { "c1", "c2" }
NoDocument == [present |-> FALSE]
NoEntry == [has |-> FALSE]
EmptyDb ==
    [learning_progress |-> NoDocument,
     stats |-> [total_quizzes |-> 0, average_score |-> 0, total_messages |-> 0],
     quiz_results |-> [t \in Topics |-> 0],
     conversations |-> [c \in ConversationIds |-> NoDocument]]

\* The two requests Flask's threaded server handles at once, and what a request
\* thread holds before it has called run_web_prompt
Threads == { "t1", "t2" }
IdleThread ==
    [pc |-> "idle", input |-> <<>>, branch |-> "", base |-> None, local |-> None,
     response |-> <<>>, ret |-> NoReturn]

Init ==
    /\ driver \in {"web", "cli"}
    /\ state = None
    /\ pc = "idle"
    /\ g = None
    /\ input = <<>>
    /\ ret = NoReturn
    /\ prev = NoReturn
    /\ pre = None
    /\ nodes = <<>>
    /\ ext = <<>>
    /\ th = [t \in Threads |-> IdleThread]
    /\ db = EmptyDb

\* Mutant: continue_medical_chat appends the user message to the stored session's
\* own list instead of building a new state
InvokeInPlace(s, inp) ==
    /\ g' = s
    /\ pc' = "interactive_conversation"
    /\ input' = inp
    /\ pre' = state
    /\ nodes' = <<>>
    /\ ext' = <<>>
    /\ ret' = NoReturn
    /\ prev' = ret
    /\ state' = IF state.present THEN s ELSE state
    /\ UNCHANGED driver

\* graph.invoke(s, {"recursion_limit": 8}) begins at START -> interactive_conversation
Invoke(s, inp) ==
    /\ g' = s
    /\ pc' = "interactive_conversation"
    /\ input' = inp
    /\ pre' = state
    /\ nodes' = <<>>
    /\ ext' = <<>>
    /\ ret' = NoReturn
    /\ prev' = ret
    /\ UNCHANGED <<driver, state>>

\* An exception leaves graph.invoke and the driver: Flask answers 500 and the
\* global is as it was; run_command_line dies with the traceback
Raise(e) ==
    /\ pc' = IF driver = "web" THEN "idle" ELSE "crashed"
    /\ ret' = RaisedOut(e)
    /\ g' = None
    /\ UNCHANGED <<driver, state, input, prev, pre>>

\* run_web_prompt, `if not state:` (line 525)
WebStart ==
    /\ UNCHANGED <<th, db>>
    /\ driver = "web" /\ pc = "idle"
    /\ ~state.present
    /\ \E inp \in Inputs : Invoke(initial_state(inp), inp)

\* run_web_prompt, `elif input.lower() == 'exit':` (line 527)
WebExit ==
    /\ UNCHANGED <<th, db>>
    /\ driver = "web" /\ pc = "idle"
    /\ state.present
    /\ \E inp \in Inputs :
        /\ Lower(inp) = ExitSentinel
        /\ state' = None
        /\ input' = inp
        /\ pre' = state
        /\ ret' = Returned(SessionEnded, FALSE)
        /\ prev' = ret
        /\ nodes' = <<>>
        /\ ext' = <<>>
        /\ UNCHANGED <<driver, pc, g>>

\* run_web_prompt, `else:` (line 533)
WebContinue ==
    /\ UNCHANGED <<th, db>>
    /\ driver = "web" /\ pc = "idle"
    /\ state.present
    /\ \E inp \in Inputs :
        /\ Lower(inp) # ExitSentinel
        /\ Invoke(updated_state(state, inp), inp)

\* run_web_prompt after the graph has ended: the assignment of lines 526/534 and
\* lines 536-555
\* Mutant: the session is kept when the analysis is complete
web_stored_keeps(s) == s

web_stored(s) == IF s.conversation_stage = "complete" THEN None ELSE s

\* Mutant: the completed turn is returned without its flag
web_return_never_complete(s) ==
    IF s.conversation_stage = "complete"
    THEN Returned(last_content(s) \o <<ResetNotice>>, FALSE)
    ELSE Returned(last_content(s), FALSE)

web_return(s) ==
    IF s.conversation_stage = "complete"
    THEN Returned(last_content(s) \o <<ResetNotice>>, TRUE)
    ELSE Returned(last_content(s), s.analysis_complete)

WebReturn ==
    /\ UNCHANGED <<th, db>>
    /\ driver = "web" /\ pc = "END"
    /\ state' = web_stored(g)
    /\ ret' = web_return(g)
    /\ pc' = "idle"
    /\ g' = None
    /\ UNCHANGED <<driver, input, prev, pre, nodes, ext>>

\* run_command_line: the first input (lines 492-497)
CliFirst ==
    /\ UNCHANGED <<th, db>>
    /\ driver = "cli" /\ pc = "idle"
    /\ ~state.present
    /\ \E inp \in Inputs :
        IF Lower(inp) = ExitSentinel
        THEN /\ pc' = "exited"
             /\ input' = inp
             /\ UNCHANGED <<driver, state, g, ret, prev, pre, nodes, ext>>
        ELSE Invoke(initial_state(inp), inp)

\* run_command_line: the loop (lines 504-510)
CliNext ==
    /\ UNCHANGED <<th, db>>
    /\ driver = "cli" /\ pc = "idle"
    /\ state.present
    /\ \E inp \in Inputs :
        IF Lower(inp) = ExitSentinel
        THEN /\ pc' = "exited"
             /\ input' = inp
             /\ UNCHANGED <<driver, state, g, ret, prev, pre, nodes, ext>>
        ELSE Invoke(updated_state(state, inp), inp)

\* run_command_line after the graph has ended (lines 497-501, 510-519)
CliReturn ==
    /\ UNCHANGED <<th, db>>
    /\ driver = "cli" /\ pc = "END"
    /\ state' = g
    /\ ret' = Returned(last_content(g), g.conversation_stage = "complete")
    /\ pc' = "idle"
    /\ g' = None
    /\ UNCHANGED <<driver, input, prev, pre, nodes, ext>>

-----------------------------------------------------------------------------
\* The graph, one action per node.  The conditional edge of a node is evaluated
\* with the node's update applied, in the same step as the node.

\* A request to an external client: for the analysis, the research text its prompt
\* carries; for the research, what the HTTP request came back with; and whether
\* the client answered (ok) or raised
NoHttp == Http("none", 0, Body(FALSE, FALSE, <<>>))
Request(call, data, http, ok) ==
    [call |-> call, research |-> data, http |-> http, ok |-> ok]

NodeInteractiveConversation ==
    /\ UNCHANGED <<th, db>>
    /\ pc = "interactive_conversation"
    /\ Len(nodes) < RecursionLimit
    /\ \E extraction \in ExtractOutcomes, reply \in ReplyOutcomes :
        LET asked == IF needs_extraction(g)
                     THEN Append(ext, Request("extraction", PyNone, NoHttp, extraction.ok)) ELSE ext
            made == Append(asked, Request("question", PyNone, NoHttp, reply.ok))
            s == Merge(g, interactive_conversation(g, extraction, reply.text))
            route == determine_next_stage(s)
        IN /\ ext' = made
           /\ IF ~reply.ok
              THEN Raise("CompletionError") /\ UNCHANGED nodes
              ELSE IF route \notin DOMAIN PathMap
              THEN Raise(IF route = "UnboundLocalError" THEN route ELSE "KeyError")
                   /\ nodes' = Append(nodes, "interactive_conversation")
              ELSE /\ g' = s
                   /\ pc' = PathMap[route]
                   /\ nodes' = Append(nodes, "interactive_conversation")
                   /\ UNCHANGED <<driver, state, input, ret, prev, pre>>

\* wait_for_user has no outgoing edge: the graph ends after it
NodeWaitForUser ==
    /\ UNCHANGED <<th, db>>
    /\ pc = "wait_for_user"
    /\ Len(nodes) < RecursionLimit
    /\ pc' = "END"
    /\ nodes' = Append(nodes, "wait_for_user")
    /\ UNCHANGED <<driver, state, g, input, ret, prev, pre, ext>>

NodeDetermineResearchNeeds ==
    /\ UNCHANGED <<th, db>>
    /\ pc = "determine_research_needs"
    /\ Len(nodes) < RecursionLimit
    /\ \E http \in HttpOutcomes :
        LET results == perplexity_research(http)
        IN /\ ext' = Append(ext, Request("research", PyNone, http, ~results.raised))
           /\ IF results.raised
              THEN Raise(results.exc) /\ UNCHANGED nodes
              ELSE /\ g' = Merge(g, determine_research_needs(g, results.value))
                   /\ pc' = "generate_analysis"
                   /\ nodes' = Append(nodes, "determine_research_needs")
                   /\ UNCHANGED <<driver, state, input, ret, prev, pre>>

\* Mutant: generate_analysis catches the failure of its completion call and goes on
\* with an error text as the report
NodeGenerateAnalysisAbsorbs ==
    /\ UNCHANGED <<th, db>>
    /\ pc = "generate_analysis"
    /\ Len(nodes) < RecursionLimit
    /\ \E analysis \in ReportOutcomes :
        /\ ext' = Append(ext, Request("analysis", research_data(g), NoHttp, analysis.ok))
        /\ g' = Merge(g, generate_analysis(g, analysis.text))
        /\ pc' = "final_response"
        /\ nodes' = Append(nodes, "generate_analysis")
        /\ UNCHANGED <<driver, state, input, ret, prev, pre>>

NodeGenerateAnalysis ==
    /\ UNCHANGED <<th, db>>
    /\ pc = "generate_analysis"
    /\ Len(nodes) < RecursionLimit
    /\ \E analysis \in ReportOutcomes :
        /\ ext' = Append(ext, Request("analysis", research_data(g), NoHttp, analysis.ok))
        /\ IF ~analysis.ok
           THEN Raise("CompletionError") /\ UNCHANGED nodes
           ELSE /\ g' = Merge(g, generate_analysis(g, analysis.text))
                /\ pc' = "final_response"
                /\ nodes' = Append(nodes, "generate_analysis")
                /\ UNCHANGED <<driver, state, input, ret, prev, pre>>

NodeFinalResponse ==
    /\ UNCHANGED <<th, db>>
    /\ pc = "final_response"
    /\ Len(nodes) < RecursionLimit
    /\ g' = Merge(g, final_response(g))
    /\ pc' = "END"
    /\ nodes' = Append(nodes, "final_response")
    /\ UNCHANGED <<driver, state, input, ret, prev, pre, ext>>

Next ==
    \/ WebStart
    \/ WebExit
    \/ WebContinue
    \/ WebReturn
    \/ CliFirst
    \/ CliNext
    \/ CliReturn
    \/ NodeInteractiveConversation
    \/ NodeWaitForUser
    \/ NodeDetermineResearchNeeds
    \/ NodeGenerateAnalysis
    \/ NodeFinalResponse

Spec == Init /\ [][Next]_vars

-----------------------------------------------------------------------------
\* The step cap.  No run of Spec reaches it, so the except branches of
\* start_medical_chat and continue_medical_chat are specified apart: SpecOverrun
\* lets graph.invoke raise GraphRecursionError before any node, which shows what
\* handle_recursion_limit does with the state the driver hands it.

WarningText == <<"[SYSTEM] Generating final analysis report...">>
GraphNodes ==
    { "interactive_conversation", "wait_for_user", "determine_research_needs",
      "generate_analysis", "final_response" }

\* The state graph.invoke was called with: initial_state or updated_state
invoked_state ==
    IF pre.present THEN updated_state(pre, input) ELSE initial_state(input)

\* final_response called as a plain function on a dict: state["messages"] and
\* state["report"] raise KeyError when the key is missing
final_response_call(s) ==
    IF "messages" \notin DOMAIN s THEN Raises("KeyError")
    ELSE IF "report" \notin DOMAIN s THEN Raises("KeyError")
    ELSE Returns(final_response(s))

\* generate_analysis(state) returns only its update, which is what
\* final_response is then called with
handle_recursion_limit(s, analysis) ==
    IF ~analysis.ok THEN Raises("CompletionError")
    ELSE LET analyzed_state == generate_analysis(s, analysis.text)
             reported == final_response_call(analyzed_state)
         IN IF reported.raised THEN reported
            ELSE LET reported_state == reported.value
                     n == Len(reported_state.messages)
                 IN Returns(
                     [k \in DOMAIN reported_state |->
                        IF k = "messages"
                        THEN s.messages \o << assistant_msg(WarningText),
                                              reported_state.messages[n] >>
                        ELSE reported_state[k]])

GraphRecursionOverrun ==
    /\ UNCHANGED <<th, db>>
    /\ pc \in GraphNodes
    /\ \E analysis \in ReportOutcomes :
        LET r == handle_recursion_limit(invoked_state, analysis)
        IN /\ ext' = Append(ext, Request("analysis", research_data(invoked_state),
                                         NoHttp, analysis.ok))
           /\ nodes' = Append(nodes, "handle_recursion_limit")
           /\ IF r.raised
              THEN Raise(r.exc)
              ELSE /\ g' = r.value
                   /\ pc' = "END"
                   /\ UNCHANGED <<driver, state, input, ret, prev, pre>>

NextOverrun ==
    \/ Next
    \/ GraphRecursionOverrun

SpecOverrun == Init /\ [][NextOverrun]_vars

-----------------------------------------------------------------------------
\* Two requests at once.  run_web_prompt takes no lock, so the threads of the
\* Flask server interleave at every read and write of the global `state`.
\* graph.invoke works on its own copy of the state and touches no global: a
\* thread runs it in the step that reads its argument.

\* What the external clients answer during one graph.invoke
Outcomes ==
    [extraction : ExtractOutcomes, reply : ReplyOutcomes,
     http : HttpOutcomes, analysis : ReportOutcomes]

\* graph.invoke(s): the nodes and edges of graph_builder, run to the end
graph_invoke(s, o) ==
    IF ~o.reply.ok THEN Raises("CompletionError")
    ELSE
    LET s1 == Merge(s, interactive_conversation(s, o.extraction, o.reply.text))
        route == determine_next_stage(s1)
    IN IF route \notin DOMAIN PathMap
       THEN Raises(IF route = "UnboundLocalError" THEN route ELSE "KeyError")
       ELSE IF PathMap[route] = "wait_for_user" THEN Returns(s1)
       ELSE IF PathMap[route] = "determine_research_needs"
       THEN LET results == perplexity_research(o.http)
                s2 == Merge(s1, determine_research_needs(s1, results.value))
                s3 == Merge(s2, generate_analysis(s2, o.analysis.text))
            IN IF results.raised THEN Raises(results.exc)
               ELSE IF ~o.analysis.ok THEN Raises("CompletionError")
               ELSE Returns(Merge(s3, final_response(s3)))
       ELSE Raises("GraphRecursionError")

\* The sessions a first turn leaves stored
FirstTurns == { graph_invoke(initial_state(inp), o) : inp \in Inputs, o \in Outcomes }
FirstTurnSessions ==
    { r.value : r \in { x \in FirstTurns :
                          ~x.raised /\ x.value.conversation_stage # "complete" } }

InitThreads ==
    /\ driver = "web"
    /\ state \in {None} \cup FirstTurnSessions
    /\ pc = "idle"
    /\ g = None
    /\ input = <<>>
    /\ ret = NoReturn
    /\ prev = NoReturn
    /\ pre = state
    /\ nodes = <<>>
    /\ ext = <<>>
    /\ th = [t \in Threads |-> IdleThread]
    /\ db = EmptyDb

Others == <<driver, pc, g, input, ret, prev, pre, nodes, ext, db>>

\* The exception leaves run_web_prompt: the request is answered 500
ThreadRaise(t, e) ==
    th' = [th EXCEPT ![t].pc = "done", ![t].ret = RaisedOut(e)]
ThreadReturn(t, r) ==
    th' = [th EXCEPT ![t].pc = "done", ![t].ret = r]

\* Lines 525 and 527: which branch; start_medical_chat runs in the first branch
TestSession(t) ==
    /\ th[t].pc = "idle"
    /\ \E inp \in Inputs, o \in Outcomes :
        IF ~state.present
        THEN LET r == graph_invoke(initial_state(inp), o)
             IN IF r.raised
                THEN th' = [th EXCEPT ![t].pc = "done", ![t].input = inp,
                                      ![t].branch = "start", ![t].ret = RaisedOut(r.exc)]
                ELSE th' = [th EXCEPT ![t].pc = "assign", ![t].input = inp,
                                      ![t].branch = "start", ![t].local = r.value]
        ELSE IF Lower(inp) = ExitSentinel
        THEN th' = [th EXCEPT ![t].pc = "exit", ![t].input = inp, ![t].branch = "exit"]
        ELSE th' = [th EXCEPT ![t].pc = "continue", ![t].input = inp,
                              ![t].branch = "continue"]
    /\ UNCHANGED state
    /\ UNCHANGED Others

\* Lines 528-532
EndSession(t) ==
    /\ th[t].pc = "exit"
    /\ state' = None
    /\ ThreadReturn(t, Returned(SessionEnded, FALSE))
    /\ UNCHANGED Others

\* Line 534, right-hand side: the global is read as the argument of
\* continue_medical_chat, which subscripts it (line 456)
ContinueChat(t) ==
    /\ th[t].pc = "continue"
    /\ \E o \in Outcomes :
        IF ~state.present THEN ThreadRaise(t, "TypeError")
        ELSE LET r == graph_invoke(updated_state(state, th[t].input), o)
             IN IF r.raised THEN ThreadRaise(t, r.exc)
                ELSE th' = [th EXCEPT ![t].pc = "assign", ![t].base = state,
                                      ![t].local = r.value]
    /\ UNCHANGED state
    /\ UNCHANGED Others

\* Lines 526 and 534, the assignment to the global
AssignSession(t) ==
    /\ th[t].pc = "assign"
    /\ state' = th[t].local
    /\ th' = [th EXCEPT ![t].pc = "stage"]
    /\ UNCHANGED Others

\* Line 537: state.get("conversation_stage")
TestStage(t) ==
    /\ th[t].pc = "stage"
    /\ IF ~state.present THEN ThreadRaise(t, "AttributeError")
       ELSE th' = [th EXCEPT ![t].pc = IF state.conversation_stage = "complete"
                                       THEN "final" ELSE "messages"]
    /\ UNCHANGED state
    /\ UNCHANGED Others

\* Line 539: state["messages"][-1]["content"]
ReadFinal(t) ==
    /\ th[t].pc = "final"
    /\ IF ~state.present THEN ThreadRaise(t, "TypeError")
       ELSE th' = [th EXCEPT ![t].pc = "reset", ![t].response = last_content(state)]
    /\ UNCHANGED state
    /\ UNCHANGED Others

\* Lines 541-547
ResetSession(t) ==
    /\ th[t].pc = "reset"
    /\ state' = None
    /\ ThreadReturn(t, Returned(th[t].response \o <<ResetNotice>>, TRUE))
    /\ UNCHANGED Others

\* Lines 549-550: state["messages"]
ReadMessages(t) ==
    /\ th[t].pc = "messages"
    /\ IF ~state.present THEN ThreadRaise(t, "TypeError")
       ELSE th' = [th EXCEPT ![t].pc = "flag", ![t].response = last_content(state)]
    /\ UNCHANGED state
    /\ UNCHANGED Others

\* Lines 552-555: state.get("analysis_complete", False)
ReadFlag(t) ==
    /\ th[t].pc = "flag"
    /\ IF ~state.present THEN ThreadRaise(t, "AttributeError")
       ELSE ThreadReturn(t, Returned(th[t].response, state.analysis_complete))
    /\ UNCHANGED state
    /\ UNCHANGED Others

NextThreads ==
    \/ \E t \in Threads : TestSession(t)
    \/ \E t \in Threads : EndSession(t)
    \/ \E t \in Threads : ContinueChat(t)
    \/ \E t \in Threads : AssignSession(t)
    \/ \E t \in Threads : TestStage(t)
    \/ \E t \in Threads : ReadFinal(t)
    \/ \E t \in Threads : ResetSession(t)
    \/ \E t \in Threads : ReadMessages(t)
    \/ \E t \in Threads : ReadFlag(t)

SpecThreads == InitThreads /\ [][NextThreads]_vars


-----------------------------------------------------------------------------
\* The node functions on their own: interactive_conversation and
\* reset_conversation applied once to any state of the State schema, whether or
\* not a turn can produce it.  `pre` is the argument, `g` the dict returned.

ArgMessage ==
    { user_msg(<<"chest", "pain">>), user_msg(<<"New", "symptom", "headache">>),
      assistant_msg(<<"how", "long">>) }
ArgMessages == UNION { [1..n -> ArgMessage] : n \in 0..MaxLen }
ArgSymptomDetails ==
    { EmptyDict } \cup
    { [has |-> TRUE, extracted_data |-> <<"symptoms">>, last_updated |-> n] :
        n \in 0..MaxLen }
ArgStates ==
    { [present |-> TRUE,
       messages |-> m,
       research_results |->
          IF done THEN [has |-> TRUE, medical_research |-> PyStr(ResearchAnswer)]
          ELSE EmptyDict,
       analysis_complete |-> done,
       report |-> IF done THEN [has |-> TRUE, content |-> Report(1)] ELSE EmptyDict,
       conversation_stage |-> stage,
       symptom_details |-> sd,
       question_count |-> qc] :
        m \in ArgMessages, done \in BOOLEAN,
        stage \in {"conversation", "research", "complete"},
        sd \in ArgSymptomDetails, qc \in 0..(QuestionCutoff + 1) }

InitNodes ==
    /\ driver = "web"
    /\ state = None
    /\ pc = "idle"
    /\ g = None
    /\ input = <<>>
    /\ ret = NoReturn
    /\ prev = NoReturn
    /\ pre \in ArgStates
    /\ nodes = <<>>
    /\ ext = <<>>
    /\ th = [t \in Threads |-> IdleThread]
    /\ db = EmptyDb

CallInteractiveConversation ==
    /\ pc = "idle"
    /\ \E extraction \in ExtractOutcomes, reply \in ReplyOutcomes :
        LET asked == IF needs_extraction(pre)
                     THEN << Request("extraction", PyNone, NoHttp, extraction.ok) >>
                     ELSE <<>>
        IN /\ ext' = Append(asked, Request("question", PyNone, NoHttp, reply.ok))
           /\ IF reply.ok
              THEN /\ g' = interactive_conversation(pre, extraction, reply.text)
                   /\ ret' = Returned(reply.text, FALSE)
              ELSE /\ g' = None
                   /\ ret' = RaisedOut("CompletionError")
    /\ nodes' = << "interactive_conversation" >>
    /\ pc' = "done"
    /\ UNCHANGED <<driver, state, input, prev, pre, th, db>>

CallResetConversation ==
    /\ pc = "idle"
    /\ g' = reset_conversation(pre)
    /\ ret' = Returned(TopicChangeAck, FALSE)
    /\ nodes' = << "reset_conversation" >>
    /\ pc' = "done"
    /\ UNCHANGED <<driver, state, input, prev, pre, ext, th, db>>

NextNodes ==
    \/ CallInteractiveConversation
    \/ CallResetConversation

SpecNodes == InitNodes /\ [][NextNodes]_vars


-----------------------------------------------------------------------------
\* The backend routes: submit_quiz (routes/quiz.py) and send_message
\* (routes/chat.py) over the collections of DatabaseService.  Each request is one
\* action; `pre` is the database as the request found it, `input` the request,
\* `ret` the response.  Scores and averages are in hundredths of a percent.

\* round(x, 2) of a quotient a / b: to the nearest hundredth, ties to even
RoundHalfEven(a, b) ==
    LET q == a \div b
        r == a % b
    IN IF 2 * r < b THEN q
       ELSE IF 2 * r > b THEN q + 1
       ELSE IF q % 2 = 0 THEN q ELSE q + 1

\* LearningProgress(user_id): no topic, no achievement
LearningProgress ==
    [present |-> TRUE, topics |-> [t \in Topics |-> NoEntry], achievements |-> {}]

\* DatabaseService.get_or_create_progress: the stored document, or a new one that
\* is inserted
get_or_create_progress(d) ==
    IF d.learning_progress.present
    THEN [db |-> d, progress |-> d.learning_progress]
    ELSE [db |-> [d EXCEPT !.learning_progress = LearningProgress],
          progress |-> LearningProgress]

\* DatabaseService.update_progress: $set of the whole progress.to_dict()
update_progress(d, progress) == [d EXCEPT !.learning_progress = progress]

\* LearningProgress.update_topic_progress(topic, **kwargs)
NewTopicEntry ==
    [has |-> TRUE, lessons_completed |-> 0, quizzes_taken |-> 0, average_score |-> 0]
topic_progress_updated(progress, topic, kwargs) ==
    LET entry == IF progress.topics[topic].has THEN progress.topics[topic]
                 ELSE NewTopicEntry
    IN [progress EXCEPT !.topics[topic] =
            [k \in DOMAIN entry |-> IF k \in DOMAIN kwargs THEN kwargs[k] ELSE entry[k]]]

\* DatabaseService.update_topic_progress: read the document, update, write it back
update_topic_progress(d, topic, kwargs) ==
    LET r == get_or_create_progress(d)
    IN update_progress(r.db, topic_progress_updated(r.progress, topic, kwargs))

add_achievement(progress, achievement) ==
    [progress EXCEPT !.achievements = @ \cup {achievement}]

save_quiz_result(d, topic) == [d EXCEPT !.quiz_results[topic] = @ + 1]

percentage(score, total_questions) ==
    IF total_questions > 0 THEN (score * 10000) \div total_questions ELSE 0

topic_get(progress, topic, key) ==
    IF progress.topics[topic].has THEN progress.topics[topic][key] ELSE 0

\* submit_quiz, lines 266-326, for a request with a topic
submit_quiz(d, topic, total_questions, score) ==
    LET pct == percentage(score, total_questions)
        current_quizzes == d.stats.total_quizzes
        current_avg == d.stats.average_score
        d1 == save_quiz_result(d, topic)
        d2 == [d1 EXCEPT !.stats.total_quizzes = current_quizzes + 1,
                         !.stats.average_score =
                            RoundHalfEven(current_avg * current_quizzes + pct,
                                          current_quizzes + 1)]
        r == get_or_create_progress(d2)
        progress == r.progress
        current_topic_quizzes == topic_get(progress, topic, "quizzes_taken")
        current_topic_avg == topic_get(progress, topic, "average_score")
        d3 == update_topic_progress(r.db, topic,
                 [quizzes_taken |-> current_topic_quizzes + 1,
                  average_score |->
                     RoundHalfEven(current_topic_avg * current_topic_quizzes + pct,
                                   current_topic_quizzes + 1)])
        p1 == IF current_quizzes = 0 THEN add_achievement(progress, "first_quiz")
              ELSE progress
        p2 == IF pct = 10000 THEN add_achievement(p1, "perfect_score") ELSE p1
        p3 == IF current_quizzes + 1 >= 10 THEN add_achievement(p2, "quiz_enthusiast")
              ELSE p2
    IN update_progress(d3, p3)

\* The errors of middleware/error_handler.py and the status they are answered with
ApiError(class, text) ==
    [kind |-> "raised", messages |-> text, analysis_complete |-> FALSE, exc |-> class]
status_code(response) ==
    IF response.kind = "returned" THEN 200
    ELSE CASE response.exc = "ValidationError" -> 400
           [] response.exc = "NotFoundError" -> 404
           [] response.exc = "AIServiceError" -> 503
           [] OTHER -> 500

QuestionCounts == { 0, 2 }
QuizRequests ==
    { [topic |-> t, total_questions |-> n, score |-> k] :
        t \in Topics \cup {""}, n \in QuestionCounts, k \in 0..2 }

SubmitQuiz ==
    /\ driver = "backend"
    /\ db.stats.total_quizzes < MaxQuizzes
    /\ \E req \in QuizRequests :
        /\ req.score <= req.total_questions
        /\ input' = req
        /\ IF req.topic = ""
           THEN /\ ret' = ApiError("ValidationError", <<"Topic is required">>)
                /\ db' = db
           ELSE /\ ret' = Returned(<<ToString(req.score)>>, FALSE)
                /\ db' = submit_quiz(db, req.topic, req.total_questions, req.score)
    /\ pre' = db
    /\ prev' = ret
    /\ nodes' = << "submit_quiz" >>
    /\ UNCHANGED <<driver, state, pc, g, ext, th>>

\* What ai_service.generate_response comes back with, or it raises
AiOutcomes ==
    { [ok |-> FALSE, messages |-> <<>>, topic |-> ""] } \cup
    { [ok |-> TRUE, messages |-> <<"answer">>, topic |-> t] : t \in {"", "cardiology"} }

ChatRequests ==
    [message : {"", " ", "hello"},
     conversation_id : {"", "not-an-id"} \cup ConversationIds,
     learning_level : {"medical_student", "expert"}]

\* ObjectId(conversation_id) accepts the id
well_formed(conversation_id) == conversation_id \in ConversationIds

Conversation == [present |-> TRUE, messages |-> <<>>, topic |-> ""]

\* The _id that insert_one gives a new conversation: one not in use
inserted_id(d) ==
    IF \E c \in ConversationIds : ~d.conversations[c].present
    THEN CHOOSE c \in ConversationIds : ~d.conversations[c].present
    ELSE CHOOSE c \in ConversationIds : TRUE
add_message_to_conversation(d, id, role, content) ==
    [d EXCEPT !.conversations[id].messages = Append(@, [role |-> role, content |-> content])]

\* send_message, lines 82-93: the conversation the request names; the except
\* clause of line 92 catches every Exception raised in the try block
lookup_conversation(d, conversation_id) ==
    IF ~well_formed(conversation_id)
    THEN Raises("ValidationError")                  \* InvalidId, caught at line 92
    ELSE IF ~d.conversations[conversation_id].present
    THEN Raises("ValidationError")                  \* NotFoundError, caught at line 92
    ELSE Returns(conversation_id)

\* send_message, lines 95-158, once the conversation is known
exchange(d, id, req, ai) ==
    LET d1 == add_message_to_conversation(d, id, "user", <<req.message>>)
        d2 == add_message_to_conversation(d1, id, "assistant", ai.messages)
        d3 == IF ai.topic # "" THEN [d2 EXCEPT !.conversations[id].topic = ai.topic]
              ELSE d2
        d4 == [d3 EXCEPT !.stats.total_messages = d.stats.total_messages + 1]
        r == get_or_create_progress(d4)
        d5 == IF ai.topic # ""
              THEN update_topic_progress(r.db, ai.topic,
                      [lessons_completed |->
                          topic_get(r.progress, ai.topic, "lessons_completed") + 1])
              ELSE d4
    IN IF ~ai.ok
       THEN [db |-> d1,
             response |-> ApiError("AIServiceError", <<"Failed to generate response">>)]
       ELSE [db |-> d5, response |-> Returned(ai.messages, FALSE)]

send_message(d, req, ai, new_id) ==
    IF req.message \in {"", " "}
    THEN [db |-> d, response |-> ApiError("ValidationError", <<"Message is required">>)]
    ELSE IF req.learning_level # "medical_student"
    THEN [db |-> d, response |-> ApiError("ValidationError", <<"Invalid learning level">>)]
    ELSE IF req.conversation_id # ""
    THEN LET found == lookup_conversation(d, req.conversation_id)
         IN IF found.raised
            THEN [db |-> d,
                  response |-> ApiError(found.exc, <<"Invalid conversation_id">>)]
            ELSE exchange(d, found.value, req, ai)
    ELSE exchange([d EXCEPT !.conversations[new_id] = Conversation], new_id, req, ai)

SendMessage ==
    /\ driver = "backend"
    /\ \E req \in ChatRequests, ai \in AiOutcomes, new_id \in ConversationIds :
        /\ new_id = inserted_id(db)
        /\ req.conversation_id = "" => ~db.conversations[new_id].present
        /\ (well_formed(req.conversation_id)
              /\ db.conversations[req.conversation_id].present) =>
                 Len(db.conversations[req.conversation_id].messages) + 2 <= MaxMessages
        /\ LET r == send_message(db, req, ai, new_id)
           IN /\ db' = r.db
              /\ ret' = r.response
        /\ input' = req
    /\ pre' = db
    /\ prev' = ret
    /\ nodes' = << "send_message" >>
    /\ UNCHANGED <<driver, state, pc, g, ext, th>>

InitBackend ==
    /\ driver = "backend"
    /\ state = None
    /\ pc = "idle"
    /\ g = None
    /\ input = <<>>
    /\ ret = NoReturn
    /\ prev = NoReturn
    /\ pre = EmptyDb
    /\ nodes = <<>>
    /\ ext = <<>>
    /\ th = [t \in Threads |-> IdleThread]
    /\ db = EmptyDb

NextBackend ==
    \/ SubmitQuiz
    \/ SendMessage

SpecBackend == InitBackend /\ [][NextBackend]_vars


-----------------------------------------------------------------------------
\* The single-shot pipeline of llm.py: run_medical_analysis invokes a graph of
\* four nodes once.  `g` is the graph state, `nodes` the nodes run, `ret` what
\* run_medical_analysis returns (the last message) or the exception it raises.

ResearchTerms == { "symptoms", "pain", "feeling", "medical", "health" }
LowerTerm(w) ==
    CASE w = "Pain" -> "pain"
      [] w = "Health" -> "health"
      [] OTHER -> LowerWord(w)
SampleInputs == { <<"chest", "pain">>, <<"hello">>, <<"my", "Health">> }
IntakeReplies == { <<"how", "long">>, <<"where", "is", "the", "Pain">> }
IntakeOutcomes == { Ok(t) : t \in IntakeReplies } \cup { Failed }
SummaryOutcomes == { Ok(<<"final", r[1], "report">>) : r \in Reports } \cup { Failed }

llm_initial_state(initial_message) ==
    [present |-> TRUE,
     messages |-> << user_msg(initial_message) >>,
     research_results |-> EmptyDict,
     analysis_complete |-> FALSE,
     report |-> EmptyDict]

intake_conversation(s, content) ==
    [messages |-> Append(s.messages, assistant_msg(content))]

\* Mutant: the analysis is never marked complete
llm_generate_analysis_incomplete(s, analysis) ==
    [analysis_complete |-> FALSE, report |-> [has |-> TRUE, content |-> analysis]]

llm_generate_analysis(s, analysis) ==
    [analysis_complete |-> TRUE, report |-> [has |-> TRUE, content |-> analysis]]

llm_final_response(s, content) ==
    [messages |-> Append(s.messages, assistant_msg(content))]

\* any(term in last_message.lower() for term in [...])
should_research(s) ==
    LET last_message == s.messages[Len(s.messages)].content
    IN IF \E i \in DOMAIN last_message : LowerTerm(last_message[i]) \in ResearchTerms
       THEN "research" ELSE "generate_analysis"

is_analysis_complete(s) ==
    IF s.analysis_complete THEN "complete" ELSE "intake_conversation"

ShouldResearchMap ==
    [generate_analysis |-> "generate_analysis", research |-> "determine_research_needs"]
AnalysisCompleteMap ==
    [intake_conversation |-> "intake_conversation", complete |-> "final_response"]

InitSingleShot ==
    /\ driver = "single_shot"
    /\ state = None
    /\ pc = "idle"
    /\ g = None
    /\ input = <<>>
    /\ ret = NoReturn
    /\ prev = NoReturn
    /\ pre = None
    /\ nodes = <<>>
    /\ ext = <<>>
    /\ th = [t \in Threads |-> IdleThread]
    /\ db = EmptyDb

RunMedicalAnalysis ==
    /\ driver = "single_shot" /\ pc = "idle"
    /\ \E inp \in SampleInputs :
        /\ input' = inp
        /\ g' = llm_initial_state(inp)
    /\ pc' = "intake_conversation"
    /\ UNCHANGED <<driver, state, ret, prev, pre, nodes, ext, th, db>>

LlmIntakeConversation ==
    /\ driver = "single_shot" /\ pc = "intake_conversation"
    /\ Len(nodes) < DefaultRecursionLimit
    /\ \E reply \in IntakeOutcomes :
        /\ ext' = Append(ext, Request("intake", PyNone, NoHttp, reply.ok))
        /\ IF ~reply.ok
           THEN Raise("CompletionError") /\ UNCHANGED nodes
           ELSE LET s == Merge(g, intake_conversation(g, reply.text))
                IN /\ g' = s
                   /\ pc' = ShouldResearchMap[should_research(s)]
                   /\ nodes' = Append(nodes, "intake_conversation")
                   /\ UNCHANGED <<driver, state, input, ret, prev, pre>>
    /\ UNCHANGED <<th, db>>

LlmDetermineResearchNeeds ==
    /\ driver = "single_shot" /\ pc = "determine_research_needs"
    /\ Len(nodes) < DefaultRecursionLimit
    /\ \E http \in HttpOutcomes :
        LET results == perplexity_research(http)
        IN /\ ext' = Append(ext, Request("research", PyNone, http, ~results.raised))
           /\ IF results.raised
              THEN Raise(results.exc) /\ UNCHANGED nodes
              ELSE /\ g' = Merge(g, determine_research_needs(g, results.value))
                   /\ pc' = "generate_analysis"
                   /\ nodes' = Append(nodes, "determine_research_needs")
                   /\ UNCHANGED <<driver, state, input, ret, prev, pre>>
    /\ UNCHANGED <<th, db>>

LlmGenerateAnalysis ==
    /\ driver = "single_shot" /\ pc = "generate_analysis"
    /\ Len(nodes) < DefaultRecursionLimit
    /\ \E analysis \in ReportOutcomes :
        /\ ext' = Append(ext, Request("analysis", research_data(g), NoHttp, analysis.ok))
        /\ IF ~analysis.ok
           THEN Raise("CompletionError") /\ UNCHANGED nodes
           ELSE LET s == Merge(g, llm_generate_analysis(g, analysis.text))
                IN /\ g' = s
                   /\ pc' = AnalysisCompleteMap[is_analysis_complete(s)]
                   /\ nodes' = Append(nodes, "generate_analysis")
                   /\ UNCHANGED <<driver, state, input, ret, prev, pre>>
    /\ UNCHANGED <<th, db>>

LlmFinalResponse ==
    /\ driver = "single_shot" /\ pc = "final_response"
    /\ Len(nodes) < DefaultRecursionLimit
    /\ \E summary \in SummaryOutcomes :
        /\ ext' = Append(ext, Request("summary", PyNone, NoHttp, summary.ok))
        /\ IF ~summary.ok
           THEN Raise("CompletionError") /\ UNCHANGED nodes
           ELSE /\ g' = Merge(g, llm_final_response(g, summary.text))
                /\ pc' = "END"
                /\ nodes' = Append(nodes, "final_response")
                /\ UNCHANGED <<driver, state, input, ret, prev, pre>>
    /\ UNCHANGED <<th, db>>

\* return results["messages"]
LlmReturn ==
    /\ driver = "single_shot" /\ pc = "END"
    /\ ret' = Returned(last_content(g), g.analysis_complete)
    /\ pc' = "done"
    /\ UNCHANGED <<driver, state, g, input, prev, pre, nodes, ext, th, db>>

NextSingleShot ==
    \/ RunMedicalAnalysis
    \/ LlmIntakeConversation
    \/ LlmDetermineResearchNeeds
    \/ LlmGenerateAnalysis
    \/ LlmFinalResponse
    \/ LlmReturn

\* graph.invoke runs the nodes one after the other until END; nothing it waits for
SpecSingleShot ==
    InitSingleShot /\ [][NextSingleShot]_vars /\ WF_vars(NextSingleShot)


TypeOK ==
    /\ driver \in {"web", "cli", "backend", "single_shot"}
    /\ pc \in {"idle", "interactive_conversation", "wait_for_user",
               "determine_research_needs", "generate_analysis", "final_response",
               "reset_conversation", "END", "exited", "crashed", "done",
               "intake_conversation"}
    /\ ret.kind \in {"none", "returned", "raised"}

-----------------------------------------------------------------------------
\* Properties

Finished == pc \in {"idle", "crashed"} /\ ret.kind # "none"
FullPipeline ==
    << "interactive_conversation", "determine_research_needs",
       "generate_analysis", "final_response" >>
Ran(node) == \E i \in DOMAIN nodes : nodes[i] = node
Asked(call) == \E i \in DOMAIN ext : ext[i].call = call
\* The call ended in an exception that came out of an external client
ClientFailure ==
    /\ ret.kind = "raised"
    /\ \/ ret.exc = "CompletionError"
       \/ ext # <<>> /\ ext[Len(ext)].call = "research"

\* C1: with no session stored, run_web_prompt given the exit sentinel returns the
\* termination acknowledgement, stores no session and makes no completion or
\* research request.
C1_ExitWithoutSession ==
    (driver = "web" /\ ~pre.present /\ Lower(input) = ExitSentinel) =>
        /\ pc = "idle"
        /\ ~state.present
        /\ ~g.present
        /\ ret = Returned(SessionEnded, FALSE)
        /\ ext = <<>>

\* C2: from every state, once run_web_prompt has received the exit sentinel the
\* session is absent and no graph node ran in that call, and the next non-exit
\* input starts a new session holding only that input, with question_count 0.
ExitDone ==
    driver = "web" /\ Lower(input) = ExitSentinel /\ pc = "idle" /\ ret.kind = "returned"
C2_ExitClearsSession ==
    [][ /\ ExitDone' => (~state'.present /\ nodes' = <<>>)
        /\ (ExitDone /\ pc' # "idle" /\ Lower(input') # ExitSentinel) =>
              (g' = initial_state(input') /\ g'.question_count = 0) ]_vars

\* C3: the stage of a session changes only conversation -> research,
\* research -> complete or complete -> conversation: every graph step changes it
\* that way or not at all, and neither the entry of a turn nor its commit changes it.
AllowedStageChanges ==
    { <<"conversation", "research">>, <<"research", "complete">>,
      <<"complete", "conversation">> }
StageStep(a, b) == a = b \/ <<a, b>> \in AllowedStageChanges
C3_StageTransitions ==
    [][ /\ (g.present /\ g'.present) =>
              StageStep(g.conversation_stage, g'.conversation_stage)
        /\ (~g.present /\ g'.present /\ state.present) =>
              g'.conversation_stage = state.conversation_stage
        /\ (g.present /\ state'.present /\ state' # state) =>
              state'.conversation_stage = g.conversation_stage ]_vars
C3_Witness ==
    /\ pc = "END" /\ g.present
    /\ g.conversation_stage = "complete"
    /\ nodes = FullPipeline
    /\ pre.present /\ pre.conversation_stage = "conversation"

\* C4: question_count grows by exactly 1 in every turn the conversation handler
\* completes, and never decreases while the session lives.
C4_QuestionCount ==
    [][ /\ (pc = "END" /\ pc' = "idle") =>
              g.question_count = (IF pre.present THEN pre.question_count ELSE 0) + 1
        /\ (g.present /\ g'.present) => g'.question_count >= g.question_count
        /\ (state.present /\ state'.present) =>
              state'.question_count \in {state.question_count, state.question_count + 1}
        /\ (~g.present /\ g'.present /\ state.present) =>
              g'.question_count = state.question_count ]_vars
C4_Witness ==
    /\ pc = "idle" /\ ret.kind = "returned"
    /\ pre.present /\ state.present
    /\ pre.conversation_stage = "conversation"
    /\ pre.question_count = 2 /\ state.question_count = 3

\* C5: when none of the replies of the first four turns contains "enough
\* information", the 5th input runs determine_research_needs, generate_analysis and
\* final_response in that one call, which returns the report with
\* analysis_complete = true and stage complete.
UserCount(messages) ==
    Cardinality({ i \in DOMAIN messages : messages[i].role = "user" })
NoReadySignal(messages) ==
    \A i \in DOMAIN messages :
        messages[i].role = "assistant" => ~has_enough_info(messages[i].content)
FifthInput ==
    /\ pre.present
    /\ UserCount(pre.messages) = 4
    /\ NoReadySignal(pre.messages)
    /\ Lower(input) # ExitSentinel
C5_FifthTurnCompletes ==
    FifthInput =>
        /\ pc # "wait_for_user"
        /\ pc = "END" =>
              /\ g.conversation_stage = "complete"
              /\ g.analysis_complete
              /\ nodes = FullPipeline
        /\ (pc = "idle" /\ ret.kind = "returned") =>
              /\ ret.analysis_complete
              /\ nodes = FullPipeline
              /\ \E r \in Reports :
                    ret.messages = r \o <<CompletionMarker>>
                                     \o (IF driver = "web" THEN <<ResetNotice>> ELSE <<>>)
              /\ IF driver = "web" THEN ~state.present
                 ELSE state.conversation_stage = "complete"
C5_Witness ==
    /\ FifthInput
    /\ driver = "web"
    /\ pc = "idle" /\ ret.kind = "returned" /\ ret.analysis_complete
    /\ nodes = FullPipeline

\* C6: once analysis_complete is true, a later turn on that session is routed to
\* final_response and yields the same terminal report content as before.
C6_CompletedReadback ==
    (pre.present /\ pre.analysis_complete /\ Finished /\ ~ClientFailure) =>
        /\ ret.kind = "returned"
        /\ Ran("final_response")
        /\ ret.messages = last_content(pre)

\* C7: when a session has reached stage complete and the next user message holds a
\* new-topic phrase, reset_conversation runs: the stage is conversation again, the
\* prior report and research_results are cleared and the topic-change
\* acknowledgement is among the messages.
C7_NewTopicResets ==
    (/\ prev.kind = "returned" /\ prev.analysis_complete
     /\ is_new_topic(input)
     /\ Finished /\ ~ClientFailure) =>
        /\ ret.kind = "returned"
        /\ Ran("reset_conversation")
        /\ state.present
        /\ state.conversation_stage = "conversation"
        /\ ~state.research_results.has
        /\ ~state.report.has
        /\ \E i \in DOMAIN state.messages :
              state.messages[i] = assistant_msg(TopicChangeAck)

\* C8: when the research request fails in transport, the turn goes on: the error
\* text is stored in research_results as the research answer, the analysis prompt
\* carries it, generate_analysis and final_response run, and the call returns the
\* report with analysis_complete = true; only a completion failure can still end
\* the turn with an exception.
TransportErrorText == PyStr(ResearchErrorText("ConnectionError"))
ResearchFailed ==
    \E i \in DOMAIN ext : ext[i].call = "research" /\ ext[i].http.net = "fail"
C8_ResearchFailureAbsorbed ==
    ResearchFailed =>
        /\ pc # "determine_research_needs"
        /\ g.present =>
              g.research_results = [has |-> TRUE, medical_research |-> TransportErrorText]
        /\ ret.kind = "raised" => ret.exc = "CompletionError"
        /\ \A i \in DOMAIN ext :
              ext[i].call = "analysis" => ext[i].research = TransportErrorText
        /\ (pc \in {"final_response", "END"} \/ ret.kind = "returned") => Asked("analysis")
        /\ (pc = "idle" /\ ret.kind = "returned") =>
              /\ ret.analysis_complete
              /\ nodes = FullPipeline
C8_Witness ==
    /\ ResearchFailed
    /\ pc = "idle" /\ ret.kind = "returned" /\ ret.analysis_complete
    /\ nodes = FullPipeline

\* C9: perplexity_research returns a text and never raises, whatever the HTTP
\* request comes back with.
C9_ResearchNeverRaises ==
    /\ \A i \in DOMAIN ext :
          ext[i].call = "research" =>
              LET r == perplexity_research(ext[i].http)
              IN ~r.raised /\ r.value.type = "str"
    /\ (ret.kind = "raised" /\ ext # <<>>) => ext[Len(ext)].call # "research"

\* C10: a call that fails in a completion request (the clarifying question or the
\* analysis, on the first turn or a later one) leaves the stored session exactly as
\* it was when the call began.
C10_FailedCompletionKeepsSession ==
    (Finished /\ ret.kind = "raised" /\ ret.exc = "CompletionError") => state = pre
C10_Witness ==
    /\ Finished /\ ret.kind = "raised" /\ ret.exc = "CompletionError"
    /\ pre.present /\ pre.question_count >= 1
    /\ ext # <<>> /\ ext[Len(ext)].call = "analysis"
    /\ state = pre

\* C11 (as stated): every failure of a completion request propagates out of the
\* turn as an error, whichever step made the request: the extractor, the
\* clarifying question or the analysis; none is absorbed into the state.
FailedRequest(call) ==
    \E i \in DOMAIN ext : ext[i].call = call /\ ~ext[i].ok
C12_SessionLifetime ==
    [][ /\ (driver = "web" /\ pc = "idle" /\ ~state.present /\ pc' # "idle"
            /\ Lower(input') # ExitSentinel) =>
              g' = initial_state(input')
        /\ (driver = "web" /\ pc = "END" /\ pc' = "idle") =>
              IF g.conversation_stage = "complete"
              THEN /\ ~state'.present
                   /\ ret'.kind = "returned"
                   /\ ret'.analysis_complete
                   /\ ret'.messages = last_content(g) \o <<ResetNotice>>
                   /\ last_content(g)[Len(last_content(g))] = CompletionMarker
              ELSE /\ state' = g
                   /\ state'.messages[1].role = "user" ]_vars
C12_Witness ==
    /\ driver = "web" /\ pc = "idle"
    /\ ret.kind = "returned" /\ ret.analysis_complete
    /\ Ran("final_response")
    /\ pre.present
    /\ ~state.present

\* C13: when the step cap is exceeded, handle_recursion_limit runs
\* generate_analysis, then final_response, and returns a state with stage complete
\* whose messages are the current messages, the warning and the report message; it
\* does not raise (the completion client answering).
C13_ForcedFinalReport ==
    (Ran("handle_recursion_limit") /\ ext[Len(ext)].ok) =>
        /\ ret.kind # "raised"
        /\ g.present
        /\ g.conversation_stage = "complete"
        /\ \E r \in Reports :
              g.messages = invoked_state.messages
                  \o << assistant_msg(WarningText),
                        assistant_msg(r \o <<CompletionMarker>>) >>

\* C14: two turns submitted concurrently against the same session are never
\* interleaved: the stored session is the result of running the two turns in some
\* serial order, so that one of them continued from what the other stored and
\* neither turn's user message nor its reply is lost.
TurnDone(t) ==
    /\ th[t].pc = "done" /\ th[t].branch = "continue"
    /\ th[t].ret.kind = "returned" /\ ~th[t].ret.analysis_complete
C14_ConcurrentTurnsSerial ==
    (\A t \in Threads : TurnDone(t)) =>
        \E a, b \in Threads :
            /\ a # b
            /\ th[a].base = pre
            /\ th[b].base = th[a].local
            /\ state = th[b].local
            /\ Len(state.messages) = Len(pre.messages) + 4

IsPrefix(a, b) == Len(a) <= Len(b) /\ \A i \in DOMAIN a : a[i] = b[i]
AskOnly == << "interactive_conversation", "wait_for_user" >>
\* The reply carries the words "enough information", in any case
ReadySignal(text) ==
    \E i \in 1..(Len(text) - 1) :
        LowerWord(text[i]) = "enough" /\ LowerWord(text[i + 1]) = "information"
FirstTurn == ~pre.present /\ nodes # <<>> /\ nodes[1] = "interactive_conversation"

\* C15 as stated: on a fresh session the first user input always leaves the stage at
\* conversation with question_count 1 and one assistant message, and runs no
\* research or analysis step.
C15_FirstTurnAlwaysAsks ==
    (FirstTurn /\ pc = "END") =>
        /\ g.conversation_stage = "conversation"
        /\ g.question_count = 1
        /\ nodes = AskOnly

\* C15 (amended): on a fresh session the first user input leaves the stage at
\* conversation with question_count 1, returns the one assistant message and runs no
\* research or analysis step when the reply does not contain "enough information";
\* when the reply contains it, the same turn runs research, analysis and the final
\* response and completes, with question_count 1.
C15_FirstTurn ==
    /\ (FirstTurn /\ pc = "END") =>
          /\ g.question_count = 1
          /\ g.messages[1] = user_msg(input)
          /\ g.messages[2].role = "assistant"
          /\ IF ReadySignal(g.messages[2].content)
             THEN /\ nodes = FullPipeline
                  /\ g.conversation_stage = "complete"
                  /\ Len(g.messages) = 3
             ELSE /\ nodes = AskOnly
                  /\ g.conversation_stage = "conversation"
                  /\ Len(g.messages) = 2
                  /\ \A i \in DOMAIN ext : ext[i].call \in {"extraction", "question"}
    /\ (FirstTurn /\ pc = "idle" /\ ret.kind = "returned" /\ ~ret.analysis_complete) =>
          /\ state.present
          /\ state.conversation_stage = "conversation"
          /\ state.question_count = 1
          /\ Len(state.messages) = 2
          /\ ret.messages = state.messages[2].content
          /\ ~ReadySignal(ret.messages)
C15_Witness ==
    /\ FirstTurn /\ pc = "idle" /\ ret.kind = "returned"
    /\ state.present /\ state.question_count = 1
    /\ nodes = AskOnly
    /\ input = <<"chest", "pain">>

\* C16: final_response appends the report text followed by the marker as the last
\* assistant message and sets the stage to complete; run_web_prompt returns
\* analysis_complete = true exactly for the turns in which final_response ran, with
\* that marked message, and false for every other turn, exit included.
C16_CompletionFlag ==
    [][ /\ (pc = "final_response" /\ pc' = "END") =>
              /\ g.report.has
              /\ g'.messages = Append(g.messages,
                     [role |-> "assistant",
                      content |-> g.report.content \o <<"[SYSTEM: ANALYSIS COMPLETE]">>])
              /\ g'.conversation_stage = "complete"
        /\ (driver = "web" /\ ret'.kind = "returned" /\ ret' # ret) =>
              /\ ret'.analysis_complete <=> (pc = "END" /\ Ran("final_response"))
              /\ ret'.analysis_complete =>
                    /\ IsPrefix(last_content(g), ret'.messages)
                    /\ last_content(g)[Len(last_content(g))] = "[SYSTEM: ANALYSIS COMPLETE]"
              /\ Lower(input') = <<"exit">> /\ state.present => ~ret'.analysis_complete
      ]_vars
C16_Witness ==
    /\ driver = "web" /\ pc = "idle" /\ ret.kind = "returned"
    /\ ret.analysis_complete
    /\ nodes = FullPipeline
    /\ \E r \in Reports : IsPrefix(r \o <<CompletionMarker>>, ret.messages)

\* C17: a turn whose conversation handler leaves the stage at research runs
\* determine_research_needs, generate_analysis and final_response, each once and in
\* that order, in the same call and on the same input; a turn that stays in the
\* conversation stage runs none of them.
C17_ResearchPipeline ==
    [][ /\ IsPrefix(nodes', FullPipeline) \/ IsPrefix(nodes', AskOnly)
        /\ (pc = "interactive_conversation" /\ g'.present) =>
              /\ g'.conversation_stage = "research" <=> pc' = "determine_research_needs"
              /\ g'.conversation_stage = "conversation" <=> pc' = "wait_for_user"
        /\ (pc = "determine_research_needs" /\ g'.present) => pc' = "generate_analysis"
        /\ (pc = "generate_analysis" /\ g'.present) => pc' = "final_response"
        /\ (pc \in {"final_response", "wait_for_user"}) => pc' = "END"
        /\ (pc \notin {"idle", "END"}) => input' = input
        /\ (pc' = "END") =>
              IF "determine_research_needs" \in { nodes'[i] : i \in DOMAIN nodes' }
              THEN nodes' = FullPipeline /\ g'.conversation_stage = "complete"
              ELSE nodes' = AskOnly /\ g'.conversation_stage = "conversation"
      ]_vars
C17_Witness ==
    /\ pc = "END" /\ nodes = FullPipeline
    /\ pre.present /\ pre.question_count = 1
    /\ g.question_count = 2

\* C18: messages is append-only within a session: the list before a turn is a
\* prefix of the list after it, at every step of the turn and in the stored session.
C18_MessagesAppendOnly ==
    [][ /\ (state.present /\ state'.present) => IsPrefix(state.messages, state'.messages)
        /\ (g.present /\ g'.present) => IsPrefix(g.messages, g'.messages)
        /\ (~g.present /\ g'.present /\ state.present) =>
              /\ IsPrefix(state.messages, g'.messages)
              /\ Len(g'.messages) = Len(state.messages) + 1
        /\ (pc = "END" /\ state'.present /\ pre.present) =>
              /\ IsPrefix(pre.messages, state'.messages)
              /\ Len(state'.messages) > Len(pre.messages)
      ]_vars
C18_Witness ==
    /\ driver = "web" /\ pc = "idle" /\ ret.kind = "returned"
    /\ pre.present /\ state.present
    /\ Len(pre.messages) = 4 /\ Len(state.messages) = 6
    /\ IsPrefix(pre.messages, state.messages)

\* C19: question_count is never incremented by a step that starts with a stage
\* other than conversation: in stage research or complete, the graph steps and the
\* further turns on the session leave it unchanged.
C19_CountStopsAfterConversation ==
    [][ /\ (g.present /\ g'.present /\ g.conversation_stage # "conversation") =>
              g'.question_count = g.question_count
        /\ (state.present /\ state'.present /\ state.conversation_stage # "conversation") =>
              state'.question_count = state.question_count
        /\ (state.present /\ g'.present /\ state.conversation_stage # "conversation") =>
              g'.question_count = state.question_count
      ]_vars
C19_Witness ==
    /\ driver = "cli" /\ pc = "crashed"
    /\ Ran("interactive_conversation")
    /\ pre.present /\ pre.conversation_stage = "complete"
    /\ state = pre

\* C20: the conversation handler sets the stage to research if and only if the
\* reply contains "enough information" (in any case) or question_count, read before
\* the increment, is at least 4, and leaves it at conversation otherwise; either way
\* question_count grows by 1 and exactly one assistant message is appended.
C20_HandlerStage ==
    [][ (pc = "interactive_conversation" /\ g'.present) =>
            LET n == Len(g'.messages)
            IN /\ n = Len(g.messages) + 1
               /\ IsPrefix(g.messages, g'.messages)
               /\ g'.messages[n].role = "assistant"
               /\ g'.question_count = g.question_count + 1
               /\ g'.conversation_stage =
                     IF ReadySignal(g'.messages[n].content) \/ g.question_count >= 4
                     THEN "research" ELSE "conversation"
      ]_vars
C20_Witness ==
    /\ pc = "determine_research_needs"
    /\ g.question_count = 5
    /\ ~ReadySignal(last_content(g))

\* C21: in an invocation of the conversation handler the extractor is called
\* exactly when the latest message is a user message added since
\* symptom_details.last_updated; when called, symptom_details is replaced and
\* last_updated is the current message count; when not called, symptom_details is
\* returned as it was.
LastIsUser(messages) ==
    Len(messages) > 0 /\ messages[Len(messages)].role = "user"
C21_ExtractorCalledOnNewUserMessage ==
    (pc = "done" /\ nodes = << "interactive_conversation" >>) =>
        LET n == Len(pre.messages)
            seen == IF pre.symptom_details.has
                    THEN pre.symptom_details.last_updated ELSE 0
        IN /\ Asked("extraction") <=> (LastIsUser(pre.messages) /\ n > seen)
           /\ Cardinality({ i \in DOMAIN ext : ext[i].call = "extraction" }) <= 1
           /\ (ret.kind = "returned" /\ Asked("extraction")) =>
                 /\ g.symptom_details.has
                 /\ g.symptom_details.last_updated = n
                 /\ g.symptom_details.extracted_data \in Extractions \cup {ExtractionError}
           /\ (ret.kind = "returned" /\ ~Asked("extraction")) =>
                 g.symptom_details = pre.symptom_details
C21_Witness ==
    /\ pc = "done" /\ nodes = << "interactive_conversation" >>
    /\ ret.kind = "returned"
    /\ LastIsUser(pre.messages)
    /\ pre.symptom_details.has /\ pre.symptom_details.last_updated = Len(pre.messages)
    /\ ~Asked("extraction")
    /\ g.symptom_details = pre.symptom_details

\* C22: reset_conversation applied to a state whose last message is from the user
\* returns exactly that user message followed by one topic-change acknowledgement,
\* stage conversation, question_count 0, analysis_complete false and empty
\* research_results, report and symptom_details; no earlier message survives.
C22_ResetKeepsTriggerOnly ==
    (pc = "done" /\ nodes = << "reset_conversation" >> /\ LastIsUser(pre.messages)) =>
        /\ g.messages =
              << pre.messages[Len(pre.messages)],
                 [role |-> "assistant", content |-> TopicChangeAck] >>
        /\ g.conversation_stage = "conversation"
        /\ g.question_count = 0
        /\ g.analysis_complete = FALSE
        /\ g.research_results = EmptyDict
        /\ g.report = EmptyDict
        /\ g.symptom_details = EmptyDict
C22_Witness ==
    /\ pc = "done" /\ nodes = << "reset_conversation" >>
    /\ LastIsUser(pre.messages)
    /\ Len(pre.messages) = 3 /\ Len(g.messages) = 2
    /\ pre.analysis_complete /\ pre.question_count > 0

\* C23: a graph invocation from start_medical_chat or continue_medical_chat runs
\* at most the 4 nodes interactive_conversation, determine_research_needs,
\* generate_analysis, final_response, or the 2 nodes interactive_conversation,
\* wait_for_user, and then ends: the recursion limit of 8 is never exceeded and
\* handle_recursion_limit is never invoked.
C23_StepCapNeverReached ==
    /\ Len(nodes) <= 4
    /\ Len(nodes) < RecursionLimit
    /\ \E path \in {FullPipeline, AskOnly} : IsPrefix(nodes, path)
    /\ ~Ran("handle_recursion_limit")
    /\ ret.kind = "raised" => ret.exc # "GraphRecursionError"
    /\ pc = "END" => nodes \in {FullPipeline, AskOnly}
C23_Witness ==
    /\ pc = "END" /\ nodes = FullPipeline
    /\ pre.present /\ pre.question_count = 4
    /\ ~ReadySignal(g.messages[Len(g.messages) - 1].content)

\* C24: after a run_web_prompt call returns, the messages of a stored session
\* alternate user, assistant, ..., starting with a user message and ending with an
\* assistant message; their number is 2 * question_count and is never 0.
Alternates(messages) ==
    \A i \in DOMAIN messages :
        messages[i].role = IF i % 2 = 1 THEN "user" ELSE "assistant"
C24_StoredMessagesAlternate ==
    (driver = "web" /\ pc = "idle" /\ state.present) =>
        /\ Len(state.messages) > 0
        /\ Alternates(state.messages)
        /\ state.messages[Len(state.messages)].role = "assistant"
        /\ Len(state.messages) = 2 * state.question_count
C24_Witness ==
    /\ driver = "web" /\ pc = "idle" /\ ret.kind = "returned"
    /\ state.present /\ state.question_count = 3
    /\ Len(state.messages) = 6

\* C25 as stated: a stored session has stage conversation, analysis_complete false
\* and 1 <= question_count <= 4, and every non-exit input moves it one question on
\* or ends it, so that it ends no later than its 5th non-exit input.
C25_SessionEndsByFifthInput ==
    [][ /\ (driver = "web" /\ state'.present) =>
              /\ state'.conversation_stage = "conversation"
              /\ ~state'.analysis_complete
              /\ state'.question_count \in 1..4
        /\ (driver = "web" /\ pc # "idle" /\ pc' = "idle" /\ pre.present) =>
              \/ ~state'.present
              \/ state'.question_count = pre.question_count + 1
      ]_vars

\* C25 (amended): a stored session has stage conversation, analysis_complete false
\* and 1 <= question_count <= 4; every non-exit input whose call returns moves it
\* one question on or ends it, so that it ends no later than the 5th such input; a
\* call that raises leaves the session, and its count, as they were.
C25_StoredSession ==
    [][ /\ (driver = "web" /\ state'.present) =>
              /\ state'.conversation_stage = "conversation"
              /\ ~state'.analysis_complete
              /\ state'.question_count \in 1..4
        /\ (driver = "web" /\ pc # "idle" /\ pc' = "idle" /\ pre.present) =>
              IF ret'.kind = "returned"
              THEN \/ ~state'.present /\ pre.question_count <= 4
                   \/ /\ state'.present
                      /\ state'.question_count = pre.question_count + 1
              ELSE state' = pre
      ]_vars
C25_Witness ==
    /\ driver = "web" /\ pc = "idle"
    /\ pre.present /\ pre.question_count = 4
    /\ ret.kind = "raised"
    /\ state = pre

\* C26: in a graph invocation made through run_web_prompt, determine_next_stage,
\* evaluated after interactive_conversation, returns only "wait_for_user" or
\* "start_research": never a value absent from the routing table, never
\* "continue_conversation", "restart_conversation" or "end", and never the read of
\* line 366.
C26_WebRoutes ==
    [][ (driver = "web" /\ pc = "interactive_conversation") =>
            IF g'.present
            THEN /\ determine_next_stage(g') \in {"wait_for_user", "start_research"}
                 /\ pc' = IF determine_next_stage(g') = "wait_for_user"
                          THEN "wait_for_user" ELSE "determine_research_needs"
            ELSE /\ ret'.kind = "raised"
                 /\ ret'.exc \notin {"KeyError", "UnboundLocalError"}
      ]_vars
C26_Witness ==
    /\ driver = "web" /\ pc = "wait_for_user"
    /\ pre.present /\ pre.question_count = 3
    /\ determine_next_stage(g) = "wait_for_user"

\* C27: of two run_web_prompt calls running at once on the global session, a call
\* that has assigned the session reads a session that is not None at its stage
\* check and at its message read: no call fails by dereferencing a session the
\* other call set to None.
C27_AssignedSessionStaysReadable ==
    \A t \in Threads :
        ~ /\ th[t].local.present
          /\ th[t].ret.kind = "raised"
          /\ th[t].ret.exc \in {"AttributeError", "TypeError"}

\* C28: after a successful submit_quiz for a topic the stored learning progress of
\* the topic has quizzes_taken one greater than before and the recomputed
\* average_score, the later save of the achievements not overwriting them; over any
\* sequence of submissions quizzes_taken of a topic is the number of submissions
\* for it.
StoredTopic(d, topic, key) ==
    IF d.learning_progress.present /\ d.learning_progress.topics[topic].has
    THEN d.learning_progress.topics[topic][key] ELSE 0
C28_QuizzesTakenCounted ==
    /\ \A t \in Topics : StoredTopic(db, t, "quizzes_taken") = db.quiz_results[t]
    /\ (nodes = << "submit_quiz" >> /\ ret.kind = "returned") =>
          StoredTopic(db, input.topic, "quizzes_taken")
              = StoredTopic(pre, input.topic, "quizzes_taken") + 1

\* C29: send_message with a well-formed conversation_id that matches no stored
\* conversation fails with NotFoundError, "Conversation not found", 404, and adds
\* no message; it fails with ValidationError, "Invalid conversation_id", 400, only
\* when the id is malformed.
ValidChat(req) == req.message = "hello" /\ req.learning_level = "medical_student"
C29_UnknownConversationNotFound ==
    (nodes = << "send_message" >> /\ ValidChat(input)) =>
        /\ (input.conversation_id \in {"c1", "c2"}
              /\ ~pre.conversations[input.conversation_id].present) =>
                 /\ ret.kind = "raised"
                 /\ ret.exc = "NotFoundError"
                 /\ status_code(ret) = 404
                 /\ db = pre
        /\ (ret.kind = "raised" /\ ret.messages = <<"Invalid conversation_id">>) =>
                 input.conversation_id = "not-an-id"

\* C30: run_medical_analysis always terminates: intake_conversation,
\* generate_analysis and final_response each run exactly once and
\* determine_research_needs at most once; the edge from generate_analysis back to
\* intake_conversation is never taken, generate_analysis always setting
\* analysis_complete to true.
Runs(node) == Cardinality({ i \in DOMAIN nodes : nodes[i] = node })
C30_SingleShotTerminates ==
    /\ [](/\ Runs("intake_conversation") <= 1
          /\ Runs("determine_research_needs") <= 1
          /\ Runs("generate_analysis") <= 1
          /\ Runs("final_response") <= 1
          /\ (nodes # <<>> /\ nodes[Len(nodes)] = "generate_analysis" /\ g.present) =>
                g.analysis_complete /\ pc = "final_response"
          /\ pc = "done" =>
                /\ Runs("intake_conversation") = 1
                /\ Runs("generate_analysis") = 1
                /\ Runs("final_response") = 1
                /\ nodes[1] = "intake_conversation"
                /\ nodes[Len(nodes)] = "final_response"
                /\ ret.kind = "returned")
    /\ <>(pc \in {"done", "crashed"})
C30_Witness ==
    /\ driver = "single_shot" /\ pc = "done"
    /\ nodes = << "intake_conversation", "determine_research_needs",
                  "generate_analysis", "final_response" >>
    /\ ret.kind = "returned"
====
